---- MODULE Spec2Model ----
(***************************************************************************)
(* A model of the proton-therapy notebooks:                                *)
(*   - HeuristicOptimizer.get_optimum, the greedy marginal-gain allocator; *)
(*   - LinearBEDPredictor / BEDPredictorUpperBoundNaive, the estimators of *)
(*     the benefit (BED) table, with their metered access log;             *)
(*   - AccuracyHandler, the harness that solves against an estimate;       *)
(*   - simulated_annealing of examples/heuristics, the facility-location   *)
(*     local search.                                                       *)
(* Matrices are indexed from 0 as in the source.  A table is a record      *)
(* [shape |-> <<rows, columns>>, val |-> [row -> [column -> value]]].      *)
(***************************************************************************)
EXTENDS Integers, Sequences, FiniteSets, TLC

VARIABLES
    BED,            \* the real benefit table (read-only after construction)
    capacity,       \* HeuristicOptimizer.capacity
    state,          \* get_optimum: units given to each patient so far
    benefit,        \* get_optimum: next-unit marginal gain of each patient
    iter,           \* get_optimum: iterations of `for i in range(capacity)` done
    num_accesses,   \* HeuristicOptimizer.num_accesses
    gpc,            \* get_optimum: "new" | "loop" | "done" | "IndexError" | "ValueError"
    ret,            \* get_optimum: the returned dict, None before it returns
    cls,            \* the predictor's class: "Linear" | "Naive"
    access_counter, \* LinearBEDPredictor.access_counter
    accessed,       \* LinearBEDPredictor._accessed
    granularity,    \* the argument of the latest estimate call
    estimated,      \* what the latest estimate call returned
    epc,            \* how the latest estimate call ended: "new" | "returned" | an exception
    gran_range,     \* AccuracyHandler: the granularities get_predictor_solution has left
    result,         \* get_predictor_solution: granularity -> recorded objective value
    solution,       \* _run_lp_model: the allocation the latest solve returned
    hpc,            \* get_predictor_solution: "new" | "loop" | "done" | an exception
    distance,       \* heuristics: the distance matrix
    NUM_OPENED,     \* heuristics: how many sites are opened
    max_reps,       \* simulated_annealing: max_reps
    cool_rep,       \* simulated_annealing: the first rep whose temperature is not above stop_T
    opened,         \* simulated_annealing: the current opened set
    optimum,        \* simulated_annealing: the best set found
    optimal_cost,   \* simulated_annealing: its cost
    rep,            \* simulated_annealing: rep
    T,              \* simulated_annealing: the rep the temperature was last computed from
    seen_costs,     \* (history) the costs of the current sets held so far
    spc,            \* simulated_annealing: "new" | "loop" | "done" | an exception
    lp_capacity,    \* LPOptimizer: the capacity of the model's constraint
    lp_status,      \* LPOptimizer.m.status after the latest optimize(): "LOADED" before it
    lp_optimum,     \* LPOptimizer.optimum
    lp_solves,      \* how many times optimize() has run
    lp_returned,    \* what the latest call handed to its caller
    lpc             \* the latest call of the exact solver's clients: "new" | "returned"

gvars == <<capacity, state, benefit, iter, num_accesses, gpc, ret>>

evars == <<cls, access_counter, accessed, granularity, estimated, epc>>

hvars == <<gran_range, result, solution, hpc>>

svars == <<distance, NUM_OPENED, max_reps, cool_rep, opened, optimum, optimal_cost,
           rep, T, seen_costs, spc>>

lvars == <<lp_capacity, lp_status, lp_optimum, lp_solves, lp_returned, lpc>>

vars == <<BED, gvars, evars, hvars, svars, lvars>>

None == "None"

\* the failure sentinel (None) where a matrix is expected
NoMatrix == [shape |-> <<0, 0>>, val |-> <<>>, den |-> 0]

\* the granularity before any estimate call
NoGranularity == 0 - 1

----------------------------------------------------------------------------
(* Bounds of the model. *)

\* most patients (rows) of a table given to the greedy allocator
MaxPatients == 2
\* most columns of a table given to the greedy allocator (units 0..MaxColumns-1)
MaxColumns == 3
\* how far the capacity may exceed the sum of every patient's maximum
MaxOver == 1

\* marginal gains a generated row may have from one column to the next
Gains == {0 - 1, 0, 1}

----------------------------------------------------------------------------
(* Tables. *)

RECURSIVE SumTo(_, _)
\* sum of f[0] .. f[n-1]
SumTo(f, n) == IF n = 0 THEN 0 ELSE SumTo(f, n - 1) + f[n - 1]

\* the row starting at 0 whose successive gains are g[0], g[1], ...
RowOfGains(g, U) == [u \in 0 .. U - 1 |-> SumTo(g, u)]

Rows(U) == {RowOfGains(g, U) : g \in [0 .. U - 2 -> Gains]}

Table(R, U, v) == [shape |-> <<R, U>>, val |-> v]

Tables(R, U) == {Table(R, U, v) : v \in [0 .. R - 1 -> Rows(U)]}

\* ModelingTest.mock_BED_data
MockBED ==
    Table(3, 3, [r \in 0 .. 2 |->
        CASE r = 0 -> [u \in 0 .. 2 |-> CASE u = 0 -> 1 [] u = 1 -> 10 [] OTHER -> 11]
          [] r = 1 -> [u \in 0 .. 2 |-> u + 1]
          [] OTHER -> [u \in 0 .. 2 |-> u + 9]])

NumRows(B) == B.shape[1]
NumCols(B) == B.shape[2]

\* BED[i, j]
At(B, i, j) == B.val[i][j]

\* a row is concave: its marginal gain never increases
ConcaveRow(row, U) ==
    \A u \in 0 .. U - 3 : row[u + 2] - row[u + 1] <= row[u + 1] - row[u]

\* a row is monotone: its benefit never decreases
MonotoneRow(row, U) == \A u \in 0 .. U - 2 : row[u] <= row[u + 1]

Concave(B) == \A r \in 0 .. NumRows(B) - 1 : ConcaveRow(B.val[r], NumCols(B))
Monotone(B) == \A r \in 0 .. NumRows(B) - 1 : MonotoneRow(B.val[r], NumCols(B))

----------------------------------------------------------------------------
(* HeuristicOptimizer *)

\* np.argmax: the first index holding the largest value
ArgMax(f, n) ==
    CHOOSE p \in 0 .. n - 1 :
        /\ \A q \in 0 .. n - 1 : f[q] <= f[p]
        /\ \A q \in 0 .. p - 1 : f[q] < f[p]

\* the value the allocator writes for a patient that reached its maximum
Sentinel == 0

GreedyTables ==
    UNION {Tables(R, U) : R \in 0 .. MaxPatients, U \in 2 .. MaxColumns}
        \cup {MockBED}

\* no predictor has been constructed
NoPredictor ==
    /\ cls = None
    /\ access_counter = 0
    /\ accessed = {}
    /\ granularity = NoGranularity
    /\ estimated = NoMatrix
    /\ epc = "new"

\* no AccuracyHandler has been constructed
NoHarness ==
    /\ gran_range = <<>>
    /\ result = <<>>
    /\ solution = <<>>
    /\ hpc = "new"

\* no LPOptimizer is being followed
NoSolver ==
    /\ lp_capacity = 0
    /\ lp_status = "LOADED"
    /\ lp_optimum = <<>>
    /\ lp_solves = 0
    /\ lp_returned = [kind |-> "none", val |-> <<>>]
    /\ lpc = "new"

\* the annealing notebook has not been run
NoAnnealing ==
    /\ distance = <<>>
    /\ NUM_OPENED = 0
    /\ max_reps = 0
    /\ cool_rep = 0
    /\ opened = {}
    /\ optimum = {}
    /\ optimal_cost = 0
    /\ rep = 0
    /\ T = 0
    /\ seen_costs = {}
    /\ spc = "new"

\* HeuristicOptimizer.__init__
GreedyInit ==
    /\ BED \in GreedyTables
    /\ capacity \in 0 .. NumRows(BED) * (NumCols(BED) - 1) + MaxOver
    /\ state = <<>>
    /\ benefit = <<>>
    /\ iter = 0
    /\ num_accesses = 0
    /\ gpc = "new"
    /\ ret = None
    /\ NoPredictor
    /\ NoHarness
    /\ NoAnnealing
    /\ NoSolver

\* get_optimum, up to the loop
GreedyStart ==
    /\ gpc = "new"
    /\ state' = [p \in 0 .. NumRows(BED) - 1 |-> 0]
    /\ benefit' = [p \in 0 .. NumRows(BED) - 1 |-> At(BED, p, 1) - At(BED, p, 0)]
    /\ num_accesses' = num_accesses + NumRows(BED)
    /\ iter' = 0
    /\ gpc' = "loop"
    /\ UNCHANGED <<BED, capacity, ret, evars, hvars, svars, lvars>>

\* one iteration of the loop
GreedyStep ==
    /\ gpc = "loop"
    /\ iter < capacity
    /\ IF NumRows(BED) = 0
       THEN \* np.argmax of an empty array raises
            /\ gpc' = "ValueError"
            /\ UNCHANGED <<state, benefit, iter, num_accesses>>
       ELSE LET patient == ArgMax(benefit, NumRows(BED))
                max_fractions_per_patient == NumCols(BED) - 1
                units == state[patient] + 1
            IN  /\ state' = [state EXCEPT ![patient] = units]
                /\ IF units = max_fractions_per_patient
                   THEN /\ benefit' = [benefit EXCEPT ![patient] = Sentinel]
                        /\ num_accesses' = num_accesses + 1
                        /\ iter' = iter + 1
                        /\ gpc' = "loop"
                   ELSE IF units + 1 > max_fractions_per_patient
                   THEN \* BED[patient, units + 1] is out of bounds
                        /\ gpc' = "IndexError"
                        /\ UNCHANGED <<benefit, iter, num_accesses>>
                   ELSE /\ benefit' = [benefit EXCEPT ![patient] =
                                At(BED, patient, units + 1) - At(BED, patient, units)]
                        /\ num_accesses' = num_accesses + 1
                        /\ iter' = iter + 1
                        /\ gpc' = "loop"
    /\ UNCHANGED <<BED, capacity, ret, evars, hvars, svars, lvars>>

\* the loop is over: return dict(zip(range(num_patients), state))
GreedyReturn ==
    /\ gpc = "loop"
    /\ iter >= capacity
    /\ ret' = state
    /\ gpc' = "done"
    /\ UNCHANGED <<BED, capacity, state, benefit, iter, num_accesses, evars, hvars, svars, lvars>>

GreedyNext == GreedyStart \/ GreedyStep \/ GreedyReturn

SpecGreedy == GreedyInit /\ [][GreedyNext]_vars

----------------------------------------------------------------------------
(* The exact optimum the greedy result is compared with (LPOptimizer's
   model: one column per patient, the columns summing to at most capacity). *)

\* the allocations the constraints of LPOptimizer.__init__ allow
Allocations(B, c) ==
    {a \in [0 .. NumRows(B) - 1 -> 0 .. NumCols(B) - 1] : SumTo(a, NumRows(B)) <= c}

\* sum of B[i, a[i]] over the patients
TotalBED(B, a) == SumTo([i \in 0 .. NumRows(B) - 1 |-> At(B, i, a[i])], NumRows(B))

Maximum(S) == CHOOSE x \in S : \A y \in S : y <= x

Optimum(B, c) == Maximum({TotalBED(B, a) : a \in Allocations(B, c)})

Min(a, b) == IF a <= b THEN a ELSE b

GreedyRaised == gpc \in {"IndexError", "ValueError"}

SumOfMaxima == NumRows(BED) * (NumCols(BED) - 1)

----------------------------------------------------------------------------
(* LinearBEDPredictor and BEDPredictorUpperBoundNaive.

   An estimate is a table with a denominator: entry [i][j] of the matrix the
   code returns is val[i][j] / den.  The code computes in floating point; the
   model keeps the exact rational for the values.  The sampled columns
   int(i * div) are computed as IEEE double arithmetic computes them
   (FloatIndex): they are the exact floor of i*(U-1)/(g-1) for every table of
   fewer than 31 columns, and fall one short of it for some wider ones. *)

\* most rows of a table given to a predictor
MaxRowsE == 2
\* most columns of a table given to a predictor
MaxColumnsE == 7
\* the widths of the tables given to a predictor
EstColumns == MaxColumnsE - 2 .. MaxColumnsE
\* the largest granularity a caller passes (the smallest is 0)
MaxGranularity == 4

\* the width of the wide tables given to a predictor
WideColumns == 31
\* the granularity a caller passes for a wide table
WideGranularity == 12

\* the gains of a generated row: a for its first two steps, b afterwards
EGains == {0 - 1, 0, 2}

EstRows(U) ==
    {RowOfGains([u \in 0 .. U - 2 |-> IF u < 2 THEN a ELSE b], U) :
        a \in EGains, b \in EGains}

\* one-row tables of WideColumns columns
WideTables == {Table(1, WideColumns, [i \in {0} |-> row]) : row \in EstRows(WideColumns)}

EstTables ==
    UNION {{Table(R, U, v) : v \in [0 .. R - 1 -> EstRows(U)]} :
        R \in 1 .. MaxRowsE, U \in EstColumns}
      \cup WideTables

Estimate(R, U, v, d) == [shape |-> <<R, U>>, val |-> v, den |-> d]

RECURSIVE LogAccesses(_, _)
\* _getBED called for each (i, j) of the sequence `pairs`, in order: the pair
\* is counted and recorded unless it is in the log already
LogAccesses(log, pairs) ==
    IF pairs = <<>> THEN log
    ELSE LET ij == Head(pairs)
         IN  LogAccesses(
                IF ij \notin log.accessed
                THEN [accessed |-> log.accessed \cup {ij}, counter |-> log.counter + 1]
                ELSE log,
                Tail(pairs))

\* (mutant) estimate forgets to reset the log
StaleLog == [accessed |-> accessed, counter |-> access_counter]

\* the log as estimate leaves it after its reset
FreshLog == [accessed |-> {}, counter |-> 0]

\* (mutant) the guard compares with columns / 2, as its message says
RejectedByHalf(B, g) == g <= 1 \/ 2 * g > NumCols(B)

\* the guard of estimate: granularity <= 1 or granularity > (columns - 1) / 2
Rejected(B, g) == g <= 1 \/ 2 * g > NumCols(B) - 1

RECURSIVE Pow2(_)
Pow2(k) == IF k <= 0 THEN 1 ELSE 2 * Pow2(k - 1)

RECURSIVE Pow2Mod(_, _)
\* 2^k modulo m, by repeated squaring
Pow2Mod(k, m) ==
    IF k = 0 THEN 1 % m
    ELSE LET SquareMod(h) == (h * h * (IF k % 2 = 1 THEN 2 ELSE 1)) % m
         IN  SquareMod(Pow2Mod(k \div 2, m))

\* the exponent of the double nearest x: the largest e with 2^e <= x, for x >= 1
RECURSIVE FloorLog2(_, _, _)
FloorLog2(n, d, e) == IF d * Pow2(e + 1) <= n THEN FloorLog2(n, d, e + 1) ELSE e

\* the k with 2^k < K <= 2^(k+1), for K >= 2
RECURSIVE BinadeBelow(_, _)
BinadeBelow(K, k) == IF Pow2(k + 1) < K THEN BinadeBelow(K, k + 1) ELSE k

\* the bits of a double's significand after the leading one
MantissaBits == 52

(* int(i * (n / d)) in IEEE double arithmetic, for n >= d >= 1 and i >= 0.
   div = n / d is rounded to the nearest double (ties to even): with
   e = FloorLog2 of n/d and s = MantissaBits - e, it is rounded down by
   r / (d * 2^s), r the remainder of n * 2^s by d, when 2r < d (or 2r = d and
   the quotient is even).  The product i * div is rounded once more.  Its
   integer part differs from the exact floor K of i*n/d only if i*n/d is the
   integer K, div was rounded down, and i * div lies more than half a
   spacing of the doubles below K under K: then it is K - 1. *)
FloatIndex(n, d, i) ==
    LET K == (i * n) \div d
        e == FloorLog2(n, d, 0)
        s == MantissaBits - e
        r == (n * Pow2Mod(s, d)) % d
        odd == (n * Pow2Mod(s, 2 * d)) % (2 * d) >= d
        down == 2 * r < d \/ (2 * r = d /\ ~odd)
        a == 1 + e - BinadeBelow(K, 0)
    IN  IF i = 0 \/ (i * n) % d # 0 \/ n % d = 0 \/ r = 0 \/ ~down THEN K
        ELSE IF i * r * Pow2(a) > d * Pow2(0 - a) THEN K - 1
        ELSE K

\* the columns floor(i * (columns - 1) / (granularity - 1)), i = 0 .. granularity - 1
ExactInds(B, g) == [k \in 1 .. g |-> ((k - 1) * (NumCols(B) - 1)) \div (g - 1)]

\* [int(i * div) for i in range(granularity)], div = (columns - 1) / (granularity - 1)
AccessedInds(B, g) == [k \in 1 .. g |-> FloatIndex(NumCols(B) - 1, g - 1, k - 1)]

Range(s) == {s[k] : k \in DOMAIN s}

RECURSIVE Concat(_, _)
\* s[1] \o s[2] \o ... \o s[n], for a sequence s of sequences
Concat(s, n) == IF n = 0 THEN <<>> ELSE Concat(s, n - 1) \o s[n]

\* the pairs (i, j) for i in range(num_patients) for j in inds
PairsOf(B, inds) ==
    Concat([r \in 1 .. NumRows(B) |-> [k \in 1 .. Len(inds) |-> <<r - 1, inds[k]>>]],
           NumRows(B))

RECURSIVE Product(_, _)
Product(f, n) == IF n = 0 THEN 1 ELSE Product(f, n - 1) * f[n]

\* a common denominator of the interpolated values: the product of the gaps
\* between adjacent sampled columns
GapsDen(inds) ==
    Product([k \in 1 .. Len(inds) - 1 |->
                IF inds[k + 1] > inds[k] THEN inds[k + 1] - inds[k] ELSE 1],
            Len(inds) - 1)

Minimum(S) == CHOOSE x \in S : \A y \in S : x <= y

\* pd.DataFrame(estimate).interpolate(axis = 1): a sampled column keeps its
\* value, a column between two sampled ones lies on the line through them, a
\* column after the last sampled one repeats it
Interpolated(B, inds, d, i, c) ==
    LET sampled == Range(inds)
        below == {x \in sampled : x < c}
        above == {x \in sampled : x > c}
    IN  IF c \in sampled THEN At(B, i, c) * d
        ELSE IF above = {} THEN At(B, i, Maximum(below)) * d
        ELSE LET a == Maximum(below)
                 b == Minimum(above)
             IN  At(B, i, a) * d
                    + (c - a) * (At(B, i, b) - At(B, i, a)) * (d \div (b - a))

\* LinearBEDPredictor.estimate, past its guard: the matrix it returns
LinearMatrix(B, g) ==
    LET inds == AccessedInds(B, g)
        d == GapsDen(inds)
    IN  Estimate(NumRows(B), NumCols(B),
            [i \in 0 .. NumRows(B) - 1 |->
                [c \in 0 .. NumCols(B) - 1 |-> Interpolated(B, inds, d, i, c)]],
            d)

\* LinearBEDPredictor.estimate, past its guard: the access log it leaves
LinearLog(B, g) == LogAccesses(FreshLog, PairsOf(B, AccessedInds(B, g)))

Reversed(s) == [k \in 1 .. Len(s) |-> s[Len(s) + 1 - k]]

\* BEDPredictorUpperBoundNaive.get_interp_gap (start, end: 0-based positions)
get_interp_gap(accessed_inds, start, end) ==
    IF start < 0 \/ Len(accessed_inds) < end + 1
    THEN 1
    ELSE accessed_inds[start + 1] - accessed_inds[end + 1]

\* [v] * n
Repeat(v, n) == [k \in 1 .. n |-> v]

\* _get_first_n_estimates: the chained list, before it is reshaped
FirstFlat(B, accessed_inds) ==
    LET rev == Reversed(accessed_inds)
        chunk(i) ==
            Concat([k \in 1 .. Len(rev) |->
                        Repeat(At(B, i, rev[k]), get_interp_gap(rev, k - 1, k))],
                   Len(rev))
    IN  Concat([r \in 1 .. NumRows(B) |-> chunk(r - 1)], NumRows(B))

\* (mutant) a reshape that hands the rows out in the opposite order
ReshapeSwapped(flat, R, C) ==
    [i \in 0 .. R - 1 |-> [c \in 0 .. C - 1 |-> flat[(R - 1 - i) * C + c + 1]]]

\* np.reshape(flat, (R, C)), row-major
Reshape(flat, R, C) == [i \in 0 .. R - 1 |-> [c \in 0 .. C - 1 |-> flat[i * C + c + 1]]]

\* (mutant) _get_first_n_estimates without the final reversal of each row
first_n_unreversed(B, accessed_inds) ==
    Reshape(FirstFlat(B, accessed_inds), NumRows(B),
            accessed_inds[Len(accessed_inds)] + 1)

\* _get_first_n_estimates: reshaped, each row reversed
first_n_estimates(B, accessed_inds) ==
    LET C == accessed_inds[Len(accessed_inds)] + 1
        m == Reshape(FirstFlat(B, accessed_inds), NumRows(B), C)
    IN  [i \in 0 .. NumRows(B) - 1 |-> [c \in 0 .. C - 1 |-> m[i][C - 1 - c]]]

\* _get_last_n_estimates
last_n_estimates(B, accessed_inds) ==
    LET last == accessed_inds[Len(accessed_inds)]
        prev == accessed_inds[Len(accessed_inds) - 1]
        last_n_est_count == NumCols(B) - last - 1
    IN  [i \in 0 .. NumRows(B) - 1 |->
            [j \in 0 .. last_n_est_count - 1 |->
                At(B, i, last) + (At(B, i, last) - At(B, i, prev)) * (j + 1)]]

\* (mutant) the anchor check inverted
AnchorPresent(accessed_inds) == 0 \in Range(accessed_inds)

\* estimate: `0 not in accessed_inds`
MissingAnchor(accessed_inds) == 0 \notin Range(accessed_inds)

\* whether np.reshape accepts the chained list
FirstFits(B, accessed_inds) ==
    Len(FirstFlat(B, accessed_inds))
        = NumRows(B) * (accessed_inds[Len(accessed_inds)] + 1)

\* BEDPredictorUpperBoundNaive.estimate, past its guards: np.c_[first, last]
NaiveMatrix(B, g) ==
    LET inds == AccessedInds(B, g)
        first == first_n_estimates(B, inds)
        rest == last_n_estimates(B, inds)
        C == inds[Len(inds)] + 1
    IN  Estimate(NumRows(B), NumCols(B),
            [i \in 0 .. NumRows(B) - 1 |->
                [c \in 0 .. NumCols(B) - 1 |->
                    IF c < C THEN first[i][c] ELSE rest[i][c - C]]],
            1)

\* the _getBED calls of _get_first_n_estimates, then of _get_last_n_estimates
NaivePairs(B, inds) ==
    LET rev == Reversed(inds)
        last == inds[Len(inds)]
        prev == inds[Len(inds) - 1]
        count == NumCols(B) - last - 1
    IN  PairsOf(B, rev)
            \o Concat([r \in 1 .. NumRows(B) |->
                          Concat([j \in 1 .. count |->
                                    <<(<<r - 1, last>>), (<<r - 1, last>>), (<<r - 1, prev>>)>>],
                                 count)],
                      NumRows(B))

NaiveLog(B, g) == LogAccesses(FreshLog, NaivePairs(B, AccessedInds(B, g)))

Granularities == 0 .. MaxGranularity \cup {WideGranularity}

\* LinearBEDPredictor.__init__
NewPredictor(c) ==
    /\ cls = c
    /\ access_counter = 0
    /\ accessed = {}
    /\ granularity = NoGranularity
    /\ estimated = NoMatrix
    /\ epc = "new"

\* no HeuristicOptimizer has been constructed
NoOptimizer ==
    /\ capacity = 0
    /\ state = <<>>
    /\ benefit = <<>>
    /\ iter = 0
    /\ num_accesses = 0
    /\ gpc = "new"
    /\ ret = None

EstInit ==
    /\ BED \in EstTables
    /\ \E c \in {"Linear", "Naive"} : NewPredictor(c)
    /\ NoOptimizer
    /\ NoHarness
    /\ NoAnnealing
    /\ NoSolver

\* LinearBEDPredictor.estimate(g): what the call does to the predictor
LinearCall(g) ==
    /\ cls = "Linear"
    /\ epc \in {"new", "returned"}
    /\ granularity' = g
    /\ IF Rejected(BED, g)
       THEN /\ estimated' = NoMatrix
            /\ UNCHANGED <<access_counter, accessed>>
       ELSE /\ estimated' = LinearMatrix(BED, g)
            /\ access_counter' = LinearLog(BED, g).counter
            /\ accessed' = LinearLog(BED, g).accessed
    /\ epc' = "returned"
    /\ UNCHANGED cls

\* BEDPredictorUpperBoundNaive.estimate(g): what the call does to the predictor
NaiveCall(g) ==
    /\ cls = "Naive"
    /\ epc \in {"new", "returned"}
    /\ granularity' = g
    /\ IF Rejected(BED, g)
       THEN /\ estimated' = NoMatrix
            /\ epc' = "returned"
            /\ UNCHANGED <<access_counter, accessed>>
       ELSE IF MissingAnchor(AccessedInds(BED, g))
       THEN /\ estimated' = NoMatrix
            /\ epc' = "NotImplementedError"
            /\ access_counter' = 0
            /\ accessed' = {}
       ELSE IF ~FirstFits(BED, AccessedInds(BED, g))
       THEN \* np.reshape raises
            /\ estimated' = NoMatrix
            /\ epc' = "ValueError"
            /\ access_counter' = LogAccesses(FreshLog, PairsOf(BED, AccessedInds(BED, g))).counter
            /\ accessed' = LogAccesses(FreshLog, PairsOf(BED, AccessedInds(BED, g))).accessed
       ELSE /\ estimated' = NaiveMatrix(BED, g)
            /\ epc' = "returned"
            /\ access_counter' = NaiveLog(BED, g).counter
            /\ accessed' = NaiveLog(BED, g).accessed
    /\ UNCHANGED cls

\* a caller invokes estimate(g) on a LinearBEDPredictor
LinearEstimate(g) == LinearCall(g) /\ UNCHANGED <<BED, gvars, hvars, svars, lvars>>

\* a caller invokes estimate(g) on a BEDPredictorUpperBoundNaive
NaiveEstimate(g) == NaiveCall(g) /\ UNCHANGED <<BED, gvars, hvars, svars, lvars>>

EstNext == \E g \in Granularities : LinearEstimate(g) \/ NaiveEstimate(g)

SpecEst == EstInit /\ [][EstNext]_vars

----------------------------------------------------------------------------
(* AccuracyHandler.  The exact solver is external: LPOptimizer returns some
   allocation that maximises the objective it was given, under the
   constraints it was given. *)

\* _run_lp_model's default capacity
LPCapacity == 100

\* the allocations LPOptimizer.get_optimum may return for the matrix E
LPOptima(E, c) ==
    LET best == Optimum(E, c)
    IN  {a \in Allocations(E, c) : TotalBED(E, a) = best}

\* the matrix _run_lp_model hands to _sum_BED to score the solution of the
\* model it built from M: its own argument
ScoredBED(M) == M

\* range(2, hi)
PyRange(lo, hi) == [k \in 1 .. hi - lo |-> lo + k - 1]

\* AccuracyHandler.__init__, and a predictor over the same table
HarnessInit ==
    /\ BED \in EstTables
    /\ \E c \in {"Linear", "Naive"} : NewPredictor(c)
    /\ NoOptimizer
    /\ \E hi \in 3 .. MaxGranularity + 1 : gran_range = PyRange(2, hi)
    /\ result = <<>>
    /\ solution = <<>>
    /\ hpc = "new"
    /\ NoAnnealing
    /\ NoSolver

\* get_predictor_solution, up to the loop
HarnessStart ==
    /\ hpc = "new"
    /\ result' = <<>>
    /\ hpc' = "loop"
    /\ UNCHANGED <<BED, gvars, evars, gran_range, solution, svars, lvars>>

\* one iteration: estimate, then _run_lp_model on what it returned
HarnessStep ==
    /\ hpc = "loop"
    /\ gran_range # <<>>
    /\ LET gran == Head(gran_range)
       IN  /\ LinearCall(gran) \/ NaiveCall(gran)
           /\ IF epc' # "returned"
              THEN \* estimate raised
                   /\ hpc' = epc'
                   /\ UNCHANGED <<result, solution, gran_range>>
              ELSE IF estimated' = NoMatrix
              THEN \* LPOptimizer.__init__ reads BED.shape of None
                   /\ hpc' = "AttributeError"
                   /\ UNCHANGED <<result, solution, gran_range>>
              ELSE \E a \in LPOptima(estimated', LPCapacity) :
                   /\ solution' = a
                   /\ result' = (gran :> [num |-> TotalBED(ScoredBED(estimated'), a),
                                          den |-> ScoredBED(estimated').den])
                                    @@ result
                   /\ gran_range' = Tail(gran_range)
                   /\ hpc' = "loop"
    /\ UNCHANGED <<BED, gvars, svars, lvars>>

\* the loop is over: return result
HarnessReturn ==
    /\ hpc = "loop"
    /\ gran_range = <<>>
    /\ hpc' = "done"
    /\ UNCHANGED <<BED, gvars, evars, gran_range, result, solution, svars, lvars>>

HarnessNext == HarnessStart \/ HarnessStep \/ HarnessReturn

SpecHarness == HarnessInit /\ [][HarnessNext]_vars

----------------------------------------------------------------------------
(* examples/heuristics: simulated annealing for the facility location.

   Sites and demand points are 0 .. N-1.  The random draws (the initial
   sample, the member to replace, the acceptance draw p) are choices.  The
   temperature start_T / ln(rep + 1) falls as rep grows, so `T > stop_T` is
   modelled by the first rep at which it fails, cool_rep (0: start_T itself
   is not above stop_T); T holds the rep the temperature was last computed
   from (0: it is still start_T).  start_T > 0 is assumed, so that
   exp(-delta / T) is 1 or more for delta <= 0 and strictly between 0 and 1
   for delta > 0. *)

\* most sites of a universe
MaxSites == 3
\* the largest max_reps a caller passes
MaxReps == 4

\* nearest_neighbor: the initial min_distance
InitialMinDistance == 10000
\* nearest_neighbor: the initial closest
NoPlace == 0 - 1

\* the sites lie on a line; the gap between neighbours is one of these
SiteGaps == {1, 2, InitialMinDistance}

\* the distance matrix of the sites whose successive gaps are g[0], g[1], ...
LineDistances(g, N) ==
    [i \in 0 .. N - 1 |-> [j \in 0 .. N - 1 |->
        IF i <= j THEN SumTo(g, j) - SumTo(g, i) ELSE SumTo(g, i) - SumTo(g, j)]]

DistanceMatrices ==
    UNION {{LineDistances(g, N) : g \in [0 .. N - 2 -> SiteGaps]} : N \in 2 .. MaxSites}

\* N = len(data)
NumSites == Cardinality(DOMAIN distance)

DC == 0 .. NumSites - 1
DA == 0 .. NumSites - 1

\* distance[here, place]: a negative index counts from the end
DistanceAt(here, place) ==
    distance[IF here < 0 THEN NumSites + here ELSE here]
            [IF place < 0 THEN NumSites + place ELSE place]

\* nearest_neighbor(here, world)[0]
MinDistance(here, world) ==
    Minimum({InitialMinDistance}
                \cup {DistanceAt(here, place) : place \in world})

\* nearest_neighbor(here, world)[1]: the places it may return (a set is
\* iterated in no fixed order, so any place at the minimum)
Closest(here, world) ==
    LET found == {place \in world :
                    /\ DistanceAt(here, place) < InitialMinDistance
                    /\ DistanceAt(here, place) = MinDistance(here, world)}
    IN  IF found = {} THEN {NoPlace} ELSE found

RECURSIVE SumOver(_, _)
\* sum of f[x] for x in S
SumOver(f, S) ==
    IF S = {} THEN 0
    ELSE LET x == CHOOSE y \in S : TRUE IN f[x] + SumOver(f, S \ {x})

compute_cost(open) == SumOver([da \in DA |-> MinDistance(da, open)], DA)

\* (mutant) the comparison of `compute_cost(opened) < optimal_cost` reversed
Worsens(cost, best) == cost > best

\* simulated_annealing: compute_cost(opened) < optimal_cost
Improves(cost, best) == cost < best

\* (mutant) the loop forgets to count the iteration
SameRep(r) == r

\* simulated_annealing: rep += 1
NextRep(r) == r + 1

\* update_temp(start_T, rep) > stop_T, for the temperature computed from rep t
Hot(t) == IF t = 0 THEN cool_rep # 0 ELSE t < cool_rep

SAInit ==
    /\ distance \in DistanceMatrices
    /\ NUM_OPENED \in 1 .. NumSites + 1
    /\ max_reps \in 0 .. MaxReps
    /\ cool_rep \in {0} \cup 2 .. MaxReps + 1
    /\ opened = {}
    /\ optimum = {}
    /\ optimal_cost = 0
    /\ rep = 0
    /\ T = 0
    /\ seen_costs = {}
    /\ spc = "new"
    /\ BED = Table(0, 2, <<>>)
    /\ NoOptimizer
    /\ NoPredictor
    /\ NoHarness
    /\ NoSolver

\* simulated_annealing, up to the loop
SAStart ==
    /\ spc = "new"
    /\ IF NUM_OPENED > NumSites
       THEN \* random.sample: sample larger than population
            /\ spc' = "ValueError"
            /\ UNCHANGED <<opened, optimum, optimal_cost, rep, T, seen_costs>>
       ELSE \E sample \in SUBSET DC :
            /\ Cardinality(sample) = NUM_OPENED
            /\ opened' = sample
            /\ optimum' = sample
            /\ optimal_cost' = compute_cost(sample)
            /\ seen_costs' = {compute_cost(sample)}
            /\ rep' = 1
            /\ T' = 0
            /\ spc' = "loop"
    /\ UNCHANGED <<BED, gvars, evars, hvars, lvars, distance, NUM_OPENED, max_reps, cool_rep>>

\* maybe_mutate(opened, T): the sets it may return
Mutations(open) ==
    UNION {UNION {LET neighbor == (open \ {previous}) \cup {new}
                      delta == compute_cost(neighbor) - compute_cost(open)
                  IN  IF delta <= 0 THEN {neighbor} ELSE {neighbor, open}
                    : new \in Closest(previous, DC \ open)}
            : previous \in open}

\* one iteration of the loop
SAStep ==
    /\ spc = "loop"
    /\ Hot(T) /\ rep < max_reps
    /\ \E next \in Mutations(opened) :
        /\ opened' = next
        /\ IF Improves(compute_cost(next), optimal_cost)
           THEN /\ optimum' = next
                /\ optimal_cost' = compute_cost(next)
           ELSE UNCHANGED <<optimum, optimal_cost>>
        /\ seen_costs' = seen_costs \cup {compute_cost(next)}
    /\ T' = rep
    /\ rep' = NextRep(rep)
    /\ spc' = "loop"
    /\ UNCHANGED <<BED, gvars, evars, hvars, lvars, distance, NUM_OPENED, max_reps, cool_rep>>

\* the loop is over: the best solution is printed
SAFinish ==
    /\ spc = "loop"
    /\ ~(Hot(T) /\ rep < max_reps)
    /\ spc' = "done"
    /\ UNCHANGED <<BED, gvars, evars, hvars, lvars, distance, NUM_OPENED, max_reps, cool_rep,
                   opened, optimum, optimal_cost, rep, T, seen_costs>>

SANext == SAStart \/ SAStep \/ SAFinish

SpecSA == SAInit /\ [][SANext]_vars

\* the run is a sequential program: while a statement can be taken, one is
SpecSAFair == SpecSA /\ WF_vars(SANext)

----------------------------------------------------------------------------
(* LPOptimizer and its client AccuracyHandler._run_lp_model.  The model of
   LPOptimizer has the allocations of Allocations(BED, capacity) as its
   feasible points: optimize() ends with status OPTIMAL and one of the best of
   them when there is any, and with status INFEASIBLE otherwise. *)

\* most calls of get_optimum on one optimizer
MaxSolves == 2

\* what _solve leaves in m.status and self.optimum
Solved(B, c) ==
    IF Allocations(B, c) = {}
    THEN \* print("Infeasible model"): self.optimum stays {}
         {[status |-> "INFEASIBLE", optimum |-> <<>>]}
    ELSE {[status |-> "OPTIMAL", optimum |-> a] : a \in LPOptima(B, c)}

\* AccuracyHandler._sum_BED
sum_BED(B, sol) == SumOver([i \in DOMAIN sol |-> At(B, i, sol[i])], DOMAIN sol)

\* LPOptimizer.__init__
LPInit ==
    /\ BED \in GreedyTables
    /\ lp_capacity \in 0 - 1 .. NumRows(BED) * (NumCols(BED) - 1)
    /\ lp_status = "LOADED"
    /\ lp_optimum = <<>>
    /\ lp_solves = 0
    /\ lp_returned = [kind |-> "none", val |-> <<>>]
    /\ lpc = "new"
    /\ NoOptimizer
    /\ NoPredictor
    /\ NoHarness
    /\ NoAnnealing

\* LPOptimizer.get_optimum
LPGetOptimum ==
    /\ lp_solves < MaxSolves
    /\ IF DOMAIN lp_optimum = {}
       THEN \E s \in Solved(BED, lp_capacity) :
            /\ lp_status' = s.status
            /\ lp_optimum' = s.optimum
            /\ lp_solves' = lp_solves + 1
            /\ lp_returned' = [kind |-> "allocation", val |-> s.optimum]
       ELSE /\ lp_returned' = [kind |-> "allocation", val |-> lp_optimum]
            /\ UNCHANGED <<lp_status, lp_optimum, lp_solves>>
    /\ lpc' = "returned"
    /\ UNCHANGED <<BED, gvars, evars, hvars, svars, lp_capacity>>

\* AccuracyHandler._run_lp_model(BED, capacity): a new optimizer is built and
\* solved, and its solution summed
LPRunModel ==
    /\ lp_solves < MaxSolves
    /\ \E s \in Solved(BED, lp_capacity) :
        /\ lp_status' = s.status
        /\ lp_optimum' = s.optimum
        /\ lp_solves' = lp_solves + 1
        /\ lp_returned' = [kind |-> "objective", val |-> sum_BED(ScoredBED(BED), s.optimum)]
    /\ lpc' = "returned"
    /\ UNCHANGED <<BED, gvars, evars, hvars, svars, lp_capacity>>

LPNext == LPGetOptimum \/ LPRunModel

SpecLP == LPInit /\ [][LPNext]_vars

----------------------------------------------------------------------------
(* Claims about HeuristicOptimizer.get_optimum, checked under SpecGreedy. *)

\* C2: for a table with concave rows and a capacity of at most the sum of the
\* patients' maxima, get_optimum returns an allocation whose total benefit is
\* the exact optimum.
C2_GreedyMatchesOptimum ==
    (Concave(BED) /\ capacity <= SumOfMaxima) =>
        /\ ~GreedyRaised
        /\ gpc = "done" => TotalBED(BED, ret) = Optimum(BED, capacity)

\* C3: for any table and any capacity, get_optimum returns an allocation whose
\* units sum to min(capacity, sum of the patients' maxima).
C3_UnitsEqualMinCapacity ==
    /\ ~GreedyRaised
    /\ gpc = "done" => SumTo(ret, NumRows(BED)) = Min(capacity, SumOfMaxima)

\* C4: with a capacity at or above the sum of the patients' maxima, get_optimum
\* returns an allocation giving every patient its maximum; for the mock table
\* the objective is then 25.
C4_Saturation ==
    (capacity >= SumOfMaxima) =>
        /\ ~GreedyRaised
        /\ gpc = "done" =>
            /\ \A p \in 0 .. NumRows(BED) - 1 : ret[p] = NumCols(BED) - 1
            /\ BED = MockBED => TotalBED(BED, ret) = 25

\* C10, for get_optimum: on degenerate input (no patients, or capacity 0) it finishes
\* without an error and returns the trivial allocation: empty for no patients,
\* all zero for capacity 0.
C10_DegenerateInput ==
    (NumRows(BED) = 0 \/ capacity = 0) =>
        /\ ~GreedyRaised
        /\ gpc = "done" => ret = [p \in 0 .. NumRows(BED) - 1 |-> 0]


\* gain of the next unit of patient q, read from the table
NextGain(q) == At(BED, q, state[q] + 1) - At(BED, q, state[q])

\* patient q has not reached the maximum
Unsaturated(q) == state[q] < NumCols(BED) - 1

\* C13: in every iteration the unit goes to a patient whose next-unit marginal
\* gain is the largest among all patients, the lowest index winning a tie.
C13_LargestGainFirst ==
    [][(gpc = "loop" /\ iter < capacity /\ NumRows(BED) > 0) =>
        \E p \in 0 .. NumRows(BED) - 1 :
            /\ state' = [state EXCEPT ![p] = state[p] + 1]
            /\ Unsaturated(p)
            /\ \A q \in 0 .. NumRows(BED) - 1 :
                Unsaturated(q) =>
                    /\ NextGain(q) <= NextGain(p)
                    /\ q < p => NextGain(q) < NextGain(p)]_vars

\* C14: in every state of the loop no patient holds more than columns - 1
\* units and no table lookup is made beyond the last column.
C14_NeverBeyondMaximum ==
    /\ \A p \in DOMAIN state : state[p] <= NumCols(BED) - 1
    /\ gpc # "IndexError"

----------------------------------------------------------------------------
(* Claims about the predictors, checked under SpecEst. *)

\* the latest estimate call returned a matrix
ReturnedMatrix == epc = "returned" /\ estimated # NoMatrix

\* every entry of the estimate is at least the real entry
UpperBounds(E, B) ==
    \A i \in 0 .. NumRows(B) - 1 : \A c \in 0 .. NumCols(B) - 1 :
        E.val[i][c] >= At(B, i, c) * E.den

\* C5 as stated: for any table with concave rows, every entry of the matrix
\* BEDPredictorUpperBoundNaive.estimate returns is >= the real entry.
C5_UpperBoundIfConcave ==
    (cls = "Naive" /\ ReturnedMatrix /\ Concave(BED)) => UpperBounds(estimated, BED)

\* C5 as amended: for any table whose rows are concave and non-decreasing,
\* every entry of the matrix BEDPredictorUpperBoundNaive.estimate returns is
\* >= the real entry.
C5_UpperBoundIfConcaveMonotone ==
    (cls = "Naive" /\ ReturnedMatrix /\ Concave(BED) /\ Monotone(BED))
        => UpperBounds(estimated, BED)

\* C5's case: an estimate of a concave, non-decreasing table that lies strictly
\* above the real table somewhere
C5_Witness ==
    /\ cls = "Naive" /\ ReturnedMatrix /\ Concave(BED) /\ Monotone(BED)
    /\ \E i \in 0 .. NumRows(BED) - 1 : \E c \in 0 .. NumCols(BED) - 1 :
            estimated.val[i][c] > At(BED, i, c)

\* C6: after LinearBEDPredictor.estimate(g) returns a matrix, access_counter is
\* R * g and is the number of distinct pairs in the access log; a second call
\* with the same g leaves the same count.
C6_AccessCount ==
    /\ []((cls = "Linear" /\ ReturnedMatrix) =>
            /\ access_counter = NumRows(BED) * granularity
            /\ access_counter = Cardinality(accessed))
    /\ [][(cls = "Linear" /\ ReturnedMatrix /\ ReturnedMatrix'
            /\ granularity' = granularity) => access_counter' = access_counter]_vars

\* C6's case: a two-row table estimated with granularity 3
C6_Witness ==
    /\ cls = "Linear" /\ ReturnedMatrix
    /\ NumRows(BED) = 2 /\ granularity = 3 /\ access_counter = 6

\* the accepted range of the claim: 2 <= g <= (U - 1) / 2
InRange(B, g) == 2 <= g /\ 2 * g <= NumCols(B) - 1

\* C7: for both predictors estimate(g) returns a matrix (of the table's shape)
\* exactly when g is in range; otherwise it returns None and makes no real
\* access (the access log is left as it was).
C7_GranularityRange ==
    /\ [](epc # "new" =>
            /\ epc = "returned"
            /\ InRange(BED, granularity) <=> estimated # NoMatrix
            /\ estimated # NoMatrix => estimated.shape = BED.shape)
    /\ [][(~InRange(BED, granularity')) =>
            UNCHANGED <<access_counter, accessed>>]_vars

\* C7's case: a call rejected for a granularity above the range, after an
\* accepted call had filled the access log
C7_Witness ==
    /\ epc = "returned" /\ estimated = NoMatrix
    /\ granularity > 2 /\ access_counter > 0


\* the pairs (recipient, column) of the columns in `cols`
PairsAt(cols) == (0 .. NumRows(BED) - 1) \X cols

C15_LogOfThisCallOnly ==
    (epc = "returned") =>
        IF Rejected(BED, granularity)
        THEN access_counter = 0 /\ accessed = {}
        ELSE /\ access_counter = Cardinality(accessed)
             /\ accessed = PairsAt(Range(AccessedInds(BED, granularity)))

C17_ExtrapolationSlope ==
    (cls = "Naive" /\ ReturnedMatrix) =>
        LET inds == AccessedInds(BED, granularity)
            last == inds[Len(inds)]
            prev == inds[Len(inds) - 1]
        IN  \A r \in 0 .. NumRows(BED) - 1 :
                \A k \in 1 .. NumCols(BED) - 1 - last :
                    estimated.val[r][last + k] * (last - prev)
                        = estimated.den * (At(BED, r, last) * (last - prev)
                                + k * (At(BED, r, last) - At(BED, r, prev)))

\* C18: the Linear estimate samples the g distinct, increasing columns
\* floor(i * (U-1) / (g-1)), from 0 to U - 1; the matrix it returns equals the
\* real table there and lies on the line between adjacent samples elsewhere.
C18_LinearSamples ==
    (cls = "Linear" /\ ReturnedMatrix) =>
        LET inds == ExactInds(BED, granularity)
            U == NumCols(BED)
        IN  /\ accessed = PairsAt(Range(inds))
            /\ \A k \in 1 .. Len(inds) - 1 : inds[k] < inds[k + 1]
            /\ inds[1] = 0 /\ inds[Len(inds)] = U - 1
            /\ \A r \in 0 .. NumRows(BED) - 1 :
                /\ \A k \in 1 .. Len(inds) :
                    estimated.val[r][inds[k]] = At(BED, r, inds[k]) * estimated.den
                /\ \A k \in 1 .. Len(inds) - 1 :
                    LET a == inds[k]
                        b == inds[k + 1]
                    IN  \A c \in a + 1 .. b - 1 :
                            estimated.val[r][c] * (b - a)
                                = estimated.den * (At(BED, r, a) * (b - a)
                                    + (c - a) * (At(BED, r, b) - At(BED, r, a)))

----------------------------------------------------------------------------
(* Claims about AccuracyHandler, checked under SpecHarness. *)

\* C1: the objective value get_predictor_solution records for a granularity is
\* the sum of the REAL table's entries at the allocation chosen by solving
\* against the estimate; the estimate's values do not enter the score.
C1_ScoredAgainstReal ==
    (hpc = "loop" /\ epc = "returned" /\ granularity \in DOMAIN result) =>
        result[granularity].num
            = TotalBED(BED, solution) * result[granularity].den

----------------------------------------------------------------------------
(* Claims about simulated_annealing, checked under SpecSA. *)

SARunning == spc \in {"loop", "done"}

\* C8: in every state of the loop and at its end, the current opened set and
\* the tracked best set each hold exactly NUM_OPENED site indices.
C8_OpenedSetSize ==
    SARunning =>
        /\ opened \subseteq DC /\ Cardinality(opened) = NUM_OPENED
        /\ optimum \subseteq DC /\ Cardinality(optimum) = NUM_OPENED

\* C9: optimal_cost never increases from one iteration to the next; after
\* every iteration it is compute_cost(optimum) and the least cost among the
\* initial set and every current set held so far.
C9_BestCostTracked ==
    /\ [](SARunning =>
            /\ optimal_cost = compute_cost(optimum)
            /\ optimal_cost = Minimum(seen_costs))
    /\ [][(spc = "loop" /\ spc' = "loop") => optimal_cost' <= optimal_cost]_vars

\* C9's case: the current set's cost has risen above the best cost, which had
\* fallen below the initial cost
C9_Witness ==
    /\ spc = "loop" /\ rep >= 3
    /\ compute_cost(opened) > optimal_cost
    /\ Cardinality(seen_costs) >= 3

\* C10, for simulated_annealing: with NUM_OPENED >= the number of sites the run
\* ends without an error, with the full universe as its opened set.
C10_AnnealingDegenerate ==
    (NUM_OPENED >= NumSites) =>
        /\ spc # "ValueError"
        /\ SARunning => opened = DC

\* C19: an iteration leaves the opened set as it was, or replaces one member p
\* by a site q of the universe outside the set that is nearest to p among the
\* sites outside the set.
C19_SingleNearestSwap ==
    [][(spc = "loop" /\ spc' = "loop") =>
        \/ opened' = opened
        \/ \E p \in opened : \E q \in DC \ opened :
            /\ opened' = (opened \ {p}) \cup {q}
            /\ \A x \in DC \ opened : DistanceAt(p, q) <= DistanceAt(p, x)]_vars

----------------------------------------------------------------------------
(* Claims about the termination of simulated_annealing, checked under
   SpecSAFair. *)

\* the run is over, normally or by an exception
SAOver == spc \in {"done", "ValueError"}

\* C20: the run terminates; an iteration is made only while T > stop_T and
\* rep < max_reps, and adds one to rep, which starts at 1: at most
\* max_reps - 1 iterations are made, none when max_reps <= 1.
C20_Terminates ==
    /\ <>SAOver
    /\ [](SARunning => rep >= 1 /\ rep - 1 <= (IF max_reps > 1 THEN max_reps - 1 ELSE 0))
    /\ [][(spc = "loop" /\ spc' = "loop") =>
            Hot(T) /\ rep < max_reps /\ rep' = rep + 1]_vars
    /\ [][(spc = "loop" /\ ~(Hot(T) /\ rep < max_reps)) => spc' = "done"]_vars

\* C20's case: the loop was stopped by max_reps, after max_reps - 1 iterations,
\* with the temperature still above stop_T
C20_Witness ==
    /\ spc = "done"
    /\ max_reps = MaxReps /\ rep = max_reps
    /\ Hot(T)

----------------------------------------------------------------------------
(* Claims about LPOptimizer, checked under SpecLP. *)

\* a result no feasible solve could have handed over: for an allocation, one
\* that does not give every patient a number of fractions; for an objective
\* value, one that is not a number
UnlikeAnyFeasible(res) ==
    IF res.kind = "objective"
    THEN res.val \notin Int
    ELSE DOMAIN res.val # 0 .. NumRows(BED) - 1

\* C11: when the solver did not report an optimum, what get_optimum and
\* _run_lp_model hand to their caller is unlike every feasible result: no
\* default allocation, no default objective value.
C11_InfeasibleIsDistinct ==
    (lpc = "returned" /\ lp_status = "INFEASIBLE") => UnlikeAnyFeasible(lp_returned)

====
